---- MODULE Spec2Model ----
\* State-machine model of src/app.py (VidBot): one Streamlit script run per
\* user interaction.  Texts are sequences of tokens; a token stands for one
\* character or for one fixed run of characters.
EXTENDS Integers, Sequences, FiniteSets, TLC

\* ---------------------------------------------------------------- bounds
MaxInputLen == 3

\* ---------------------------------------------------------------- texts
\* Characters the user can type into the text area; "youtube.com" is typed as
\* one token.
InputChars == {"a", ",", " ", "youtube.com"}

RECURSIVE TextsUpTo(_)
TextsUpTo(n) ==
    IF n = 0 THEN {<<>>}
    ELSE LET shorter == TextsUpTo(n - 1)
         IN  shorter \cup {Append(t, c) : t \in {s \in shorter : Len(s) = n - 1}, c \in InputChars}

Inputs == TextsUpTo(MaxInputLen)

\* Answers of the remote services.
CaptionTracks == {<< <<"Hello">>, <<"world">> >>}
HttpBodies == {<<>>, <<"Hello world">>}
SummaryTexts == {<<>>, <<"S1">>, <<"S2">>}
AnswerTexts == {<<"A1">>}
Questions == {<<>>, <<"Q1">>, <<"Q2">>}
HttpStatuses == {"200", "500"}

PROMPT_HEADER ==
    <<"You are a professional video summarizer. ...", "\n",
      "Here are the combined transcripts: ", "\n">>

\* ---------------------------------------------------------------- str helpers
Digits == <<"0", "1", "2", "3", "4", "5", "6", "7", "8", "9">>

\* str(n) for n >= 0, as the f-string formats idx.
RECURSIVE Str(_)
Str(n) == IF n < 10 THEN <<Digits[n + 1]>> ELSE Append(Str(n \div 10), Digits[(n % 10) + 1])

\* s.split(",")
RECURSIVE Split(_)
Split(s) ==
    IF \A i \in 1..Len(s) : s[i] # ","
    THEN <<s>>
    ELSE LET i == CHOOSE k \in 1..Len(s) : s[k] = "," /\ \A m \in 1..(k - 1) : s[m] # ","
         IN  <<SubSeq(s, 1, i - 1)>> \o Split(SubSeq(s, i + 1, Len(s)))

\* s.strip()
RECURSIVE Strip(_)
Strip(s) ==
    IF s = <<>> THEN s
    ELSE IF Head(s) = " " THEN Strip(Tail(s))
    ELSE IF s[Len(s)] = " " THEN Strip(SubSeq(s, 1, Len(s) - 1))
    ELSE s

\* [u.strip() for u in urls_input.split(",") if u.strip()]
ParseUrls(input) ==
    LET parts == Split(input)
        stripped == [i \in 1..Len(parts) |-> Strip(parts[i])]
    IN  SelectSeq(stripped, LAMBDA u : u # <<>>)

\* " ".join(segments)
RECURSIVE JoinSpace(_)
JoinSpace(segs) ==
    IF segs = <<>> THEN <<>>
    ELSE IF Len(segs) = 1 THEN segs[1]
    ELSE segs[1] \o <<" ">> \o JoinSpace(Tail(segs))

\* ---------------------------------------------------------------- components
Failure == [ok |-> FALSE, text |-> <<>>]
Success(t) == [ok |-> TRUE, text |-> t]

\* extract_transcript: the caption segments joined by single spaces, or an
\* exception of the transcript service.  Which track the service returns for
\* the video id cut from the URL is the service's choice.
extract_transcript(youtube_url) ==
    {Failure} \cup {Success(JoinSpace(segs)) : segs \in CaptionTracks}

\* fetch_transcript: what one call can do for this source.
fetch_transcript(source) ==
    IF \E i \in 1..Len(source) : source[i] = "youtube.com"
    THEN extract_transcript(source)
    ELSE {Failure} \cup {Success(b) : b \in HttpBodies}

\* Line 116: the segment a fetched transcript adds to the document.
\* Variant: the ordinal counted from 0.
Segment_zero_based(i, text) ==
    <<"\n", "\n", "=== Transcript ">> \o Str(i - 1) \o <<" ===", "\n">> \o text

Segment(i, text) ==
    <<"\n", "\n", "=== Transcript ">> \o Str(i) \o <<" ===", "\n">> \o text

\* Variant: the header after the document.
generate_summary_header_last(combined) == combined \o PROMPT_HEADER

\* generate_summary: the contents of the request it sends.
generate_summary(combined) == PROMPT_HEADER \o combined

\* post_to_teams: the text field of the payload.
teams_payload(summary_text) == <<"**Combined Video Summary**", "\n", "\n">> \o summary_text

\* Variant: question and summary in each other's place.
ask_chatbot_swapped(summary_text, question) ==
    <<"You are an assistant. ...", "\n", "\n", "Video Summary:", "\n">>
        \o question
        \o <<"\n", "\n", "User Question:", "\n">>
        \o summary_text
        \o <<"\n", "\n", "Answer:">>

\* ask_chatbot: the prompt it sends.
ask_chatbot(summary_text, question) ==
    <<"You are an assistant. ...", "\n", "\n", "Video Summary:", "\n">>
        \o summary_text
        \o <<"\n", "\n", "User Question:", "\n">>
        \o question
        \o <<"\n", "\n", "Answer:">>

\* ---------------------------------------------------------------- state
VARIABLES
    urls_input,              \* text area value
    post_to_teams_checkbox,  \* checkbox
    enable_chatbot,          \* checkbox
    chat_question,           \* text input value (key "chat_question")
    session_state,           \* st.session_state: function on a subset of {"summary"}
    clicked,                 \* the button whose click started this run
    pc,                      \* position of the running script
    urls, idx, combined_transcript, summary,   \* locals of the generate handler
    calls,                   \* outbound calls of this run, in order
    shown                    \* what this run has displayed, in order

vars == <<urls_input, post_to_teams_checkbox, enable_chatbot, chat_question,
          session_state, clicked, pc, urls, idx, combined_transcript, summary,
          calls, shown>>

widgets == <<urls_input, post_to_teams_checkbox, enable_chatbot, chat_question>>
locals == <<urls, idx, combined_transcript, summary>>

NoState == [k \in {} |-> <<>>]

Call(op, arg, status, out) == [op |-> op, arg |-> arg, status |-> status, out |-> out]
Msg(kind, what, body) == [kind |-> kind, what |-> what, body |-> body]

\* st.session_state.get("summary") is truthy
HasSummary(ss) == "summary" \in DOMAIN ss /\ ss["summary"] # <<>>

Init ==
    /\ urls_input = <<>>
    /\ post_to_teams_checkbox = TRUE
    /\ enable_chatbot = FALSE
    /\ chat_question = <<>>
    /\ session_state = NoState
    /\ clicked = "none"
    /\ pc = "idle"
    /\ urls = <<>>
    /\ idx = 0
    /\ combined_transcript = <<>>
    /\ summary = <<>>
    /\ calls = <<>>
    /\ shown = <<>>


\* ---------------------------------------------------------------- script runs
\* Every user interaction starts one run of the script, top to bottom.  Only
\* the button that was clicked reads True in that run.

\* Variant: the warning also when no source remains after parsing.
ClickGenerate_short_circuit ==
    /\ pc = "idle"
    /\ \E input \in Inputs :
        /\ urls_input' = input
        /\ IF ParseUrls(input) = <<>>
           THEN /\ shown' = <<Msg("warning", "no_url", <<>>)>>
                /\ urls' = <<>>
                /\ idx' = 0
                /\ pc' = "chat"
           ELSE /\ shown' = <<>>
                /\ urls' = ParseUrls(input)
                /\ idx' = 1
                /\ pc' = IF ParseUrls(input) = <<>> THEN "summarize" ELSE "fetch"
    /\ clicked' = "generate"
    /\ combined_transcript' = <<>>
    /\ summary' = <<>>
    /\ calls' = <<>>
    /\ UNCHANGED <<post_to_teams_checkbox, enable_chatbot, chat_question, session_state>>

\* Lines 106-111: "Generate Combined Summary" clicked, with the text area
\* holding input.
ClickGenerate ==
    /\ pc = "idle"
    /\ \E input \in Inputs :
        /\ urls_input' = input
        /\ IF input = <<>>
           THEN /\ shown' = <<Msg("warning", "no_url", <<>>)>>
                /\ urls' = <<>>
                /\ idx' = 0
                /\ pc' = "chat"
           ELSE /\ shown' = <<>>
                /\ urls' = ParseUrls(input)
                /\ idx' = 1
                /\ pc' = IF ParseUrls(input) = <<>> THEN "summarize" ELSE "fetch"
    /\ clicked' = "generate"
    /\ combined_transcript' = <<>>
    /\ summary' = <<>>
    /\ calls' = <<>>
    /\ UNCHANGED <<post_to_teams_checkbox, enable_chatbot, chat_question, session_state>>

\* Variant: the first failed fetch ends the loop.
FetchTranscript_abort ==
    /\ pc = "fetch"
    /\ \E r \in fetch_transcript(urls[idx]) :
        /\ calls' = Append(calls, Call("fetch", urls[idx], IF r.ok THEN "ok" ELSE "raised", r.text))
        /\ IF r.ok
           THEN /\ combined_transcript' = combined_transcript \o Segment(idx, r.text)
                /\ shown' = Append(shown, Msg("write", "fetching", Str(idx)))
           ELSE /\ combined_transcript' = combined_transcript \o <<>>
                /\ shown' = shown \o <<Msg("write", "fetching", Str(idx)),
                                       Msg("error", "fetch", urls[idx])>>
        /\ pc' = IF idx = Len(urls) \/ ~r.ok THEN "summarize" ELSE "fetch"
    /\ idx' = idx + 1
    /\ UNCHANGED <<widgets, session_state, clicked, urls, summary>>

\* Lines 113-119: one iteration of the fetch loop.
FetchTranscript ==
    /\ pc = "fetch"
    /\ \E r \in fetch_transcript(urls[idx]) :
        /\ calls' = Append(calls, Call("fetch", urls[idx], IF r.ok THEN "ok" ELSE "raised", r.text))
        /\ IF r.ok
           THEN /\ combined_transcript' = combined_transcript \o Segment(idx, r.text)
                /\ shown' = Append(shown, Msg("write", "fetching", Str(idx)))
           ELSE /\ combined_transcript' = combined_transcript \o <<>>
                /\ shown' = shown \o <<Msg("write", "fetching", Str(idx)),
                                       Msg("error", "fetch", urls[idx])>>
    /\ idx' = idx + 1
    /\ pc' = IF idx = Len(urls) THEN "summarize" ELSE "fetch"
    /\ UNCHANGED <<widgets, session_state, clicked, urls, summary>>

\* Variant: the error is displayed and the handler goes on.
Summarize_continue ==
    /\ pc = "summarize"
    /\ \/ \E s \in SummaryTexts :
            /\ calls' = Append(calls, Call("summarize", generate_summary(combined_transcript), "ok", s))
            /\ summary' = s
            /\ shown' = shown \o <<Msg("subheader", "notes", <<>>),
                                   Msg("write", "summary", s),
                                   Msg("success", "generated", <<>>)>>
            /\ pc' = IF post_to_teams_checkbox THEN "notify" ELSE "embed"
       \/ /\ calls' = Append(calls, Call("summarize", generate_summary(combined_transcript), "raised", <<>>))
          /\ shown' = Append(shown, Msg("error", "generating", <<>>))
          /\ pc' = "embed"
          /\ UNCHANGED summary
    /\ UNCHANGED <<widgets, session_state, clicked, urls, idx, combined_transcript>>

\* Lines 120-125, and 138-139 when generate_summary raises.
Summarize ==
    /\ pc = "summarize"
    /\ \/ \E s \in SummaryTexts :
            /\ calls' = Append(calls, Call("summarize", generate_summary(combined_transcript), "ok", s))
            /\ summary' = s
            /\ shown' = shown \o <<Msg("subheader", "notes", <<>>),
                                   Msg("write", "summary", s),
                                   Msg("success", "generated", <<>>)>>
            /\ pc' = IF post_to_teams_checkbox THEN "notify" ELSE "embed"
       \/ /\ calls' = Append(calls, Call("summarize", generate_summary(combined_transcript), "raised", <<>>))
          /\ shown' = Append(shown, Msg("error", "generating", <<>>))
          /\ pc' = "chat"
          /\ UNCHANGED summary
    /\ UNCHANGED <<widgets, session_state, clicked, urls, idx, combined_transcript>>

\* Lines 128-130 with post_to_teams (70-75), and 138-139 when the POST raises.
PostToTeams ==
    /\ pc = "notify"
    /\ \/ \E status \in HttpStatuses :
            /\ calls' = Append(calls, Call("teams", teams_payload(summary), status, <<>>))
            /\ shown' = IF status # "200"
                        THEN shown \o <<Msg("error", "teams", <<>>), Msg("success", "posted", <<>>)>>
                        ELSE Append(shown, Msg("success", "posted", <<>>))
            /\ pc' = "embed"
       \/ /\ calls' = Append(calls, Call("teams", teams_payload(summary), "raised", <<>>))
          /\ shown' = Append(shown, Msg("error", "generating", <<>>))
          /\ pc' = "chat"
    /\ UNCHANGED <<widgets, session_state, clicked, locals>>

\* Lines 133-137 with generate_embedding (61-67), and 138-139 when it raises.
Embed ==
    /\ pc = "embed"
    /\ \/ /\ calls' = Append(calls, Call("embed", combined_transcript, "ok", <<>>))
          /\ shown' = Append(shown, Msg("write", "embedding", <<>>))
          /\ session_state' = [k \in DOMAIN session_state \cup {"summary"} |->
                                  IF k = "summary" THEN summary ELSE session_state[k]]
       \/ /\ calls' = Append(calls, Call("embed", combined_transcript, "raised", <<>>))
          /\ shown' = Append(shown, Msg("error", "generating", <<>>))
          /\ UNCHANGED session_state
    /\ pc' = "chat"
    /\ UNCHANGED <<widgets, clicked, locals>>

\* "Ask Bot" clicked with the text input holding q.  The button exists only
\* if the previous run rendered it (line 142).
ClickAsk ==
    /\ pc = "idle"
    /\ enable_chatbot /\ HasSummary(session_state)
    /\ \E q \in Questions : chat_question' = q
    /\ clicked' = "ask"
    /\ pc' = "chat"
    /\ calls' = <<>>
    /\ shown' = <<>>
    /\ UNCHANGED <<urls_input, post_to_teams_checkbox, enable_chatbot, session_state, locals>>

\* A checkbox toggled: a run in which no button reads True.
ToggleCheckbox ==
    /\ pc = "idle"
    /\ \/ post_to_teams_checkbox' = ~post_to_teams_checkbox /\ UNCHANGED enable_chatbot
       \/ enable_chatbot' = ~enable_chatbot /\ UNCHANGED post_to_teams_checkbox
    /\ clicked' = "none"
    /\ pc' = "chat"
    /\ calls' = <<>>
    /\ shown' = <<>>
    /\ UNCHANGED <<urls_input, chat_question, session_state, locals>>

\* Variant: a failed Q&A call drops the stored summary.
ChatInterface_invalidate ==
    /\ pc = "chat"
    /\ IF enable_chatbot /\ HasSummary(session_state)
       THEN IF clicked = "ask" /\ chat_question # <<>>
            THEN \/ \E a \in AnswerTexts :
                      /\ calls' = Append(calls, Call("ask", ask_chatbot(session_state["summary"], chat_question), "ok", a))
                      /\ shown' = shown \o <<Msg("subheader", "chatbot", <<>>), Msg("write", "answer", a)>>
                      /\ UNCHANGED session_state
                 \/ /\ calls' = Append(calls, Call("ask", ask_chatbot(session_state["summary"], chat_question), "raised", <<>>))
                    /\ shown' = shown \o <<Msg("subheader", "chatbot", <<>>), Msg("error", "chatbot", <<>>)>>
                    /\ session_state' = NoState
            ELSE /\ shown' = Append(shown, Msg("subheader", "chatbot", <<>>))
                 /\ UNCHANGED <<calls, session_state>>
       ELSE UNCHANGED <<calls, shown, session_state>>
    /\ pc' = "done"
    /\ UNCHANGED <<widgets, clicked, locals>>

\* Lines 142-152: the chatbot interface, reached at the end of every run.
ChatInterface ==
    /\ pc = "chat"
    /\ IF enable_chatbot /\ HasSummary(session_state)
       THEN IF clicked = "ask" /\ chat_question # <<>>
            THEN \/ \E a \in AnswerTexts :
                      /\ calls' = Append(calls, Call("ask", ask_chatbot(session_state["summary"], chat_question), "ok", a))
                      /\ shown' = shown \o <<Msg("subheader", "chatbot", <<>>), Msg("write", "answer", a)>>
                 \/ /\ calls' = Append(calls, Call("ask", ask_chatbot(session_state["summary"], chat_question), "raised", <<>>))
                    /\ shown' = shown \o <<Msg("subheader", "chatbot", <<>>), Msg("error", "chatbot", <<>>)>>
            ELSE /\ shown' = Append(shown, Msg("subheader", "chatbot", <<>>))
                 /\ UNCHANGED calls
       ELSE UNCHANGED <<calls, shown>>
    /\ pc' = "done"
    /\ UNCHANGED <<widgets, session_state, clicked, locals>>

\* The script returns; its locals and its output are gone with the next run.
EndRun ==
    /\ pc = "done"
    /\ pc' = "idle"
    /\ clicked' = "none"
    /\ urls' = <<>>
    /\ idx' = 0
    /\ combined_transcript' = <<>>
    /\ summary' = <<>>
    /\ calls' = <<>>
    /\ shown' = <<>>
    /\ UNCHANGED <<widgets, session_state>>

Next ==
    \/ ClickGenerate
    \/ FetchTranscript
    \/ Summarize
    \/ PostToTeams
    \/ Embed
    \/ ClickAsk
    \/ ToggleCheckbox
    \/ ChatInterface
    \/ EndRun

Spec == Init /\ [][Next]_vars


\* ---------------------------------------------------------------- properties
CallsOf(op) == SelectSeq(calls, LAMBDA c : c.op = op)
Shows(kind, what) == \E i \in 1..Len(shown) : shown[i].kind = kind /\ shown[i].what = what

\* The document the fetch results f[1..n] should give: one labelled segment
\* per successful fetch, labelled with its position in the list.
RECURSIVE ExpectedDocument(_, _)
ExpectedDocument(f, n) ==
    IF n = 0 THEN <<>>
    ELSE ExpectedDocument(f, n - 1)
            \o (IF f[n].status = "ok"
                THEN <<"\n", "\n", "=== Transcript ">> \o Str(n) \o <<" ===", "\n">> \o f[n].out
                ELSE <<>>)

\* C1: at every point of a generate run the Aggregated Document is the
\* concatenation, in input order, of "\n\n=== Transcript i ===\n" + text_i for
\* exactly the sources i fetched successfully so far, i being the position in
\* the source list; once the loop is over this covers every source of the list.
C1_AggregatedDocument ==
    clicked = "generate" =>
        LET f == CallsOf("fetch")
        IN  /\ combined_transcript = ExpectedDocument(f, Len(f))
            /\ \A i \in 1..Len(f) : i <= Len(urls) /\ f[i].arg = urls[i]
            /\ (pc \in {"summarize", "notify", "embed"}) => Len(f) = Len(urls)

C1_Witness ==
    /\ pc = "summarize"
    /\ Len(urls) = 2
    /\ Len(calls) = 2
    /\ calls[1].status = "raised"
    /\ calls[2].status = "ok"
    /\ combined_transcript = <<"\n", "\n", "=== Transcript ", "2", " ===", "\n", "Hello world">>

\* C2: every summarization request is the instruction header followed by the
\* Aggregated Document as it stands after the last fetch; with source 1
\* returning "Hello world" and source 2 failing it is the header plus
\* "\n\n=== Transcript 1 ===\nHello world".
C2_SummaryRequest ==
    \A j \in 1..Len(calls) :
        calls[j].op = "summarize" =>
            /\ calls[j].arg = PROMPT_HEADER \o combined_transcript
            /\ (/\ j = 3
                /\ calls[1].status = "ok" /\ calls[1].out = <<"Hello world">>
                /\ calls[2].status = "raised")
               => calls[j].arg = PROMPT_HEADER \o
                      <<"\n", "\n", "=== Transcript ", "1", " ===", "\n", "Hello world">>

C2_Witness ==
    /\ Len(calls) >= 3
    /\ calls[1].op = "fetch" /\ calls[1].status = "ok" /\ calls[1].out = <<"Hello world">>
    /\ calls[2].op = "fetch" /\ calls[2].status = "raised"
    /\ calls[3].op = "summarize"

\* C3 (as claimed): after a generate run whose summarization succeeded, the
\* stored Summary is the summary that run produced, whatever notification and
\* embedding did.
C3_StoredSummaryIsDisplayed ==
    (pc = "done" /\ clicked = "generate") =>
        \A j \in 1..Len(calls) :
            (calls[j].op = "summarize" /\ calls[j].status = "ok") =>
                /\ "summary" \in DOMAIN session_state
                /\ session_state["summary"] = calls[j].out

\* C4 (as claimed): a delivery confirmation is shown only if the webhook POST
\* returned 200, and never together with a delivery error.
C4_ConfirmationOnlyOn200 ==
    Shows("success", "posted") =>
        /\ \E j \in 1..Len(calls) : calls[j].op = "teams" /\ calls[j].status = "200"
        /\ ~Shows("error", "teams")

\* C5 (as claimed): when the summary succeeded and the Notifier failed (non-200
\* or transport failure), the run still invokes the Embedder exactly once and
\* reports a notification error.
C5_NotificationFailureNotFatal ==
    (pc = "done" /\ \E j \in 1..Len(calls) : calls[j].op = "teams" /\ calls[j].status # "200") =>
        /\ Len(CallsOf("embed")) = 1
        /\ Shows("error", "teams")

SummarizeFailed == \E j \in 1..Len(calls) : calls[j].op = "summarize" /\ calls[j].status = "raised"

\* C6: from the step in which the summarization call fails to the end of that
\* run, no Notifier, Embedder or Q&A call is made, no summary is displayed,
\* the error is displayed, and no step writes the stored Summary.
C6_SummarizeFailureAborts ==
    [][SummarizeFailed' =>
          /\ session_state' = session_state
          /\ \A j \in 1..Len(calls') : calls'[j].op \notin {"teams", "embed", "ask"}
          /\ \A i \in 1..Len(shown') : shown'[i].what # "summary"
          /\ \E i \in 1..Len(shown') : shown'[i] = Msg("error", "generating", <<>>)]_vars

C6_Witness ==
    /\ pc = "done"
    /\ SummarizeFailed
    /\ enable_chatbot
    /\ HasSummary(session_state)

\* C7: the fetch calls of a run are the first calls of the run, the j-th one
\* is for the j-th source (so each source is attempted once, in order, failed
\* or not); the summarization call comes right after the fetch of the last
\* source; notification and embedding come after a summarization call that
\* returned.
C7_Sequencing ==
    \A j \in 1..Len(calls) :
        /\ calls[j].op = "fetch" => (j <= Len(urls) /\ calls[j].arg = urls[j])
        /\ calls[j].op = "summarize" =>
              (j = Len(urls) + 1 /\ \A k \in 1..(j - 1) : calls[k].op = "fetch")
        /\ calls[j].op \in {"teams", "embed"} =>
              \E k \in 1..(j - 1) : calls[k].op = "summarize" /\ calls[k].status = "ok"

C7_Witness ==
    /\ pc = "done"
    /\ Len(urls) = 2
    /\ Len(calls) = 5
    /\ calls[1].status = "raised"
    /\ calls[4].op = "teams"
    /\ calls[5].op = "embed"

\* Occurrences of token t in text p.
Occurs(t, p) == \E i \in 1..Len(p) : p[i] = t

\* C8: the prompt of every Q&A call is the fixed framing with the current
\* stored Summary and then the current Question in it, verbatim: the Summary
\* starts at the 6th token, the Question follows it after the 4 framing tokens,
\* and no token of another question or of an answer is in the prompt.
C8_GroundedPrompt ==
    \A j \in 1..Len(calls) :
        calls[j].op = "ask" =>
            LET p == calls[j].arg
                s == session_state["summary"]
                q == chat_question
            IN  /\ Len(p) = 12 + Len(s) + Len(q)
                /\ SubSeq(p, 6, 5 + Len(s)) = s
                /\ SubSeq(p, 10 + Len(s), 9 + Len(s) + Len(q)) = q
                /\ \A t \in {"Q1", "Q2", "A1"} : Occurs(t, p) => Occurs(t, q)
                /\ \A t \in {"S1", "S2"} : Occurs(t, p) => Occurs(t, s)

C8_Witness ==
    /\ pc = "done"
    /\ clicked = "ask"
    /\ Len(calls) = 1
    /\ calls[1].op = "ask"
    /\ chat_question = <<"Q2">>
    /\ session_state["summary"] = <<"S1">>

\* C9: only a step of a generate run changes the stored Summary; no step of an
\* ask run does, whether the Q&A call succeeds or fails.
C9_SingleWriter ==
    [][session_state' # session_state => (clicked = "generate" /\ clicked' = "generate")]_vars

C9_Witness ==
    /\ pc = "done"
    /\ clicked = "ask"
    /\ Len(calls) = 1
    /\ calls[1].op = "ask"
    /\ calls[1].status = "raised"
    /\ HasSummary(session_state)

\* C10: a finished generate run has called the Summarizer exactly once if the
\* raw input text was non-empty and not at all if it was empty; when no source
\* remained after splitting and trimming, or every fetch failed, the request
\* is the instruction header alone.
C10_NoShortCircuit ==
    (pc = "done" /\ clicked = "generate") =>
        LET sm == CallsOf("summarize")
            f == CallsOf("fetch")
        IN  /\ urls_input # <<>> => Len(sm) = 1
            /\ urls_input = <<>> => Len(sm) = 0
            /\ (urls_input # <<>> /\ \A i \in 1..Len(f) : f[i].status = "raised")
                   => (Len(sm) = 1 /\ sm[1].arg = PROMPT_HEADER)

C10_Witness ==
    /\ pc = "done"
    /\ clicked = "generate"
    /\ urls_input = <<" ", ",", " ">>
    /\ Len(calls) >= 1
    /\ calls[1].op = "summarize"
    /\ calls[1].arg = PROMPT_HEADER

====
